---- MODULE Spec2Model ----
(***************************************************************************)
(* Keypad I/O of the gba crate (src/io/keypad.rs): the KEYINPUT register,  *)
(* the KeyInput snapshot type with its queries, and the                    *)
(* KeyInterruptSetting configuration value.                                *)
(***************************************************************************)
EXTENDS Integers, Sequences, FiniteSets, TLC

VARIABLES KEYINPUT, key, other, setting, out, events

vars == <<KEYINPUT, key, other, setting, out, events>>

(***************************************************************************)
(* Bounds                                                                  *)
(***************************************************************************)
\* number of button press/release events the hardware produces in one run
MaxEvents == 2
\* the sampled KeyInput operands of difference() are 0..MaxSample, their
\* 16-bit complements, and every single-bit value
MaxSample == 40

(***************************************************************************)
(* u16 arithmetic                                                          *)
(***************************************************************************)
U16 == 0 .. 65535

Shl(a, n) == (a * (2 ^ n)) % 65536

\* the bitwise operators on one hexadecimal digit, bit by bit
RECURSIVE BitsXor(_, _)
BitsXor(a, b) ==
  IF a = 0 /\ b = 0 THEN 0
  ELSE (((a % 2) + (b % 2)) % 2) + 2 * BitsXor(a \div 2, b \div 2)

RECURSIVE BitsAnd(_, _)
BitsAnd(a, b) ==
  IF a = 0 \/ b = 0 THEN 0
  ELSE ((a % 2) * (b % 2)) + 2 * BitsAnd(a \div 2, b \div 2)

RECURSIVE BitsOr(_, _)
BitsOr(a, b) ==
  IF a = 0 /\ b = 0 THEN 0
  ELSE (IF a % 2 = 1 \/ b % 2 = 1 THEN 1 ELSE 0) + 2 * BitsOr(a \div 2, b \div 2)

Xor4 == [a \in 0 .. 15 |-> [b \in 0 .. 15 |-> BitsXor(a, b)]]
And4 == [a \in 0 .. 15 |-> [b \in 0 .. 15 |-> BitsAnd(a, b)]]
Or4 == [a \in 0 .. 15 |-> [b \in 0 .. 15 |-> BitsOr(a, b)]]

\* hexadecimal digit d of a 16-bit value
Hex(a, d) == (a \div (16 ^ d)) % 16

\* the 16-bit operators, digit by digit
Xor16(a, b) ==
  Xor4[Hex(a, 0)][Hex(b, 0)] + 16 * Xor4[Hex(a, 1)][Hex(b, 1)]
    + 256 * Xor4[Hex(a, 2)][Hex(b, 2)] + 4096 * Xor4[Hex(a, 3)][Hex(b, 3)]

And16(a, b) ==
  And4[Hex(a, 0)][Hex(b, 0)] + 16 * And4[Hex(a, 1)][Hex(b, 1)]
    + 256 * And4[Hex(a, 2)][Hex(b, 2)] + 4096 * And4[Hex(a, 3)][Hex(b, 3)]

Or16(a, b) ==
  Or4[Hex(a, 0)][Hex(b, 0)] + 16 * Or4[Hex(a, 1)][Hex(b, 1)]
    + 256 * Or4[Hex(a, 2)][Hex(b, 2)] + 4096 * Or4[Hex(a, 3)][Hex(b, 3)]

Not16(a) == 65535 - a

\* bit i of v, used to state properties position by position
Pow2 == [i \in 0 .. 15 |-> 2 ^ i]

BitAt(v, i) == (v \div Pow2[i]) % 2

(***************************************************************************)
(* TriBool                                                                 *)
(***************************************************************************)
Minus == -1
Neutral == 0
Plus == 1

(***************************************************************************)
(* register_bit!: the getter and setter generated for one bit constant     *)
(***************************************************************************)
register_bit_get(v, bit) == And16(v, bit) # 0

register_bit_set(v, bit, b) ==
  IF b THEN Or16(v, bit) ELSE And16(v, Not16(bit))

(***************************************************************************)
(* KeyInput                                                                *)
(***************************************************************************)
KeyInput_Default == 0

KeyInput_A_BIT == 1
KeyInput_B_BIT_off == Shl(1, 0)
KeyInput_B_BIT == Shl(1, 1)
KeyInput_SELECT_BIT == Shl(1, 2)
KeyInput_START_BIT == Shl(1, 3)
KeyInput_RIGHT_BIT_dup == Shl(1, 5)
KeyInput_RIGHT_BIT == Shl(1, 4)
KeyInput_LEFT_BIT == Shl(1, 5)
KeyInput_UP_BIT == Shl(1, 6)
KeyInput_DOWN_BIT == Shl(1, 7)
KeyInput_R_BIT == Shl(1, 8)
KeyInput_L_BIT == Shl(1, 9)

Buttons == {"A", "B", "Select", "Start", "Right", "Left", "Up", "Down", "R", "L"}

KeyInput_bit(b) ==
  CASE b = "A" -> KeyInput_A_BIT
    [] b = "B" -> KeyInput_B_BIT
    [] b = "Select" -> KeyInput_SELECT_BIT
    [] b = "Start" -> KeyInput_START_BIT
    [] b = "Right" -> KeyInput_RIGHT_BIT
    [] b = "Left" -> KeyInput_LEFT_BIT
    [] b = "Up" -> KeyInput_UP_BIT
    [] b = "Down" -> KeyInput_DOWN_BIT
    [] b = "R" -> KeyInput_R_BIT
    [] b = "L" -> KeyInput_L_BIT

a_pressed(k) == register_bit_get(k, KeyInput_A_BIT)
b_pressed(k) == register_bit_get(k, KeyInput_B_BIT)
select_pressed(k) == register_bit_get(k, KeyInput_SELECT_BIT)
start_pressed(k) == register_bit_get(k, KeyInput_START_BIT)
right_pressed(k) == register_bit_get(k, KeyInput_RIGHT_BIT)
left_pressed(k) == register_bit_get(k, KeyInput_LEFT_BIT)
up_pressed(k) == register_bit_get(k, KeyInput_UP_BIT)
down_pressed(k) == register_bit_get(k, KeyInput_DOWN_BIT)
r_pressed(k) == register_bit_get(k, KeyInput_R_BIT)
l_pressed(k) == register_bit_get(k, KeyInput_L_BIT)

pressed(b, k) ==
  CASE b = "A" -> a_pressed(k)
    [] b = "B" -> b_pressed(k)
    [] b = "Select" -> select_pressed(k)
    [] b = "Start" -> start_pressed(k)
    [] b = "Right" -> right_pressed(k)
    [] b = "Left" -> left_pressed(k)
    [] b = "Up" -> up_pressed(k)
    [] b = "Down" -> down_pressed(k)
    [] b = "R" -> r_pressed(k)
    [] b = "L" -> l_pressed(k)

difference_subtract(self, o) == And16(self, Not16(o))
difference(self, o) == Xor16(self, o)

column_direction_left_first(self) ==
  IF left_pressed(self) THEN Minus
  ELSE IF right_pressed(self) THEN Plus
  ELSE Neutral
column_direction(self) ==
  IF right_pressed(self) THEN Plus
  ELSE IF left_pressed(self) THEN Minus
  ELSE Neutral

row_direction_up_first(self) ==
  IF up_pressed(self) THEN Minus
  ELSE IF down_pressed(self) THEN Plus
  ELSE Neutral
row_direction(self) ==
  IF down_pressed(self) THEN Plus
  ELSE IF up_pressed(self) THEN Minus
  ELSE Neutral

\* the XOR mask of read_key_input, 0b0000_0011_1111_1111
KEY_MASK == 1023

read_key_input_short_mask(raw) == Xor16(raw, 511)
read_key_input_not(raw) == Not16(raw)
read_key_input(raw) == Xor16(raw, KEY_MASK)

(***************************************************************************)
(* KeyInterruptSetting                                                     *)
(***************************************************************************)
KeyInterruptSetting_Default_armed == Shl(1, 14)
KeyInterruptSetting_Default == 0

KeyInterruptSetting_A_BIT == 1
KeyInterruptSetting_B_BIT_wide == Shl(1, 1) + 1
KeyInterruptSetting_B_BIT == Shl(1, 1)
KeyInterruptSetting_SELECT_BIT == Shl(1, 2)
KeyInterruptSetting_START_BIT == Shl(1, 3)
KeyInterruptSetting_RIGHT_BIT == Shl(1, 4)
KeyInterruptSetting_LEFT_BIT == Shl(1, 5)
KeyInterruptSetting_UP_BIT == Shl(1, 6)
KeyInterruptSetting_DOWN_BIT == Shl(1, 7)
KeyInterruptSetting_R_BIT == Shl(1, 8)
KeyInterruptSetting_L_BIT == Shl(1, 9)
IRQ_ENABLE_BIT_low == Shl(1, 13)
IRQ_ENABLE_BIT == Shl(1, 14)
IRQ_AND_BIT == Shl(1, 15)

Fields == Buttons \cup {"irq_enabled", "irq_logical_and"}

KeyInterruptSetting_bit(f) ==
  CASE f = "A" -> KeyInterruptSetting_A_BIT
    [] f = "B" -> KeyInterruptSetting_B_BIT
    [] f = "Select" -> KeyInterruptSetting_SELECT_BIT
    [] f = "Start" -> KeyInterruptSetting_START_BIT
    [] f = "Right" -> KeyInterruptSetting_RIGHT_BIT
    [] f = "Left" -> KeyInterruptSetting_LEFT_BIT
    [] f = "Up" -> KeyInterruptSetting_UP_BIT
    [] f = "Down" -> KeyInterruptSetting_DOWN_BIT
    [] f = "R" -> KeyInterruptSetting_R_BIT
    [] f = "L" -> KeyInterruptSetting_L_BIT
    [] f = "irq_enabled" -> IRQ_ENABLE_BIT
    [] f = "irq_logical_and" -> IRQ_AND_BIT

\* getter and setter of one field of a KeyInterruptSetting
setting_get(f, s) == register_bit_get(s, KeyInterruptSetting_bit(f))
setting_set(f, s, b) == register_bit_set(s, KeyInterruptSetting_bit(f), b)

irq_enabled(s) == setting_get("irq_enabled", s)
irq_logical_and(s) == setting_get("irq_logical_and", s)

(***************************************************************************)
(* State                                                                   *)
(***************************************************************************)
\* out: the last operation, its argument, its result, and the value it
\* started from (the register value of a poll, the setting before a set)
Out(op, arg, flag, num, input) ==
  [op |-> op, arg |-> arg, flag |-> flag, num |-> num, input |-> input]

\* the operands difference() is sampled on
KeySamples ==
  (0 .. MaxSample) \cup {65535 - k : k \in 0 .. MaxSample} \cup {2 ^ i : i \in 0 .. 15}

Init ==
  /\ KEYINPUT = KEY_MASK
  /\ key = KeyInput_Default
  /\ other = KeyInput_Default
  /\ setting = KeyInterruptSetting_Default
  /\ out = Out("default", "", FALSE, 0, 0)
  /\ events = 0

\* the register line of each button (bit position in KEYINPUT)
KEYINPUT_line(b) ==
  CASE b = "A" -> 0
    [] b = "B" -> 1
    [] b = "Select" -> 2
    [] b = "Start" -> 3
    [] b = "Right" -> 4
    [] b = "Left" -> 5
    [] b = "Up" -> 6
    [] b = "Down" -> 7
    [] b = "R" -> 8
    [] b = "L" -> 9

\* a button goes down: its low-active bit of the register drops to 0
HwPress(b) ==
  /\ events < MaxEvents
  /\ BitAt(KEYINPUT, KEYINPUT_line(b)) = 1
  /\ KEYINPUT' = KEYINPUT - 2 ^ KEYINPUT_line(b)
  /\ events' = events + 1
  /\ UNCHANGED <<key, other, setting, out>>

\* a button comes up: its bit of the register returns to 1
HwRelease(b) ==
  /\ events < MaxEvents
  /\ BitAt(KEYINPUT, KEYINPUT_line(b)) = 0
  /\ KEYINPUT' = KEYINPUT + 2 ^ KEYINPUT_line(b)
  /\ events' = events + 1
  /\ UNCHANGED <<key, other, setting, out>>

\* one poll; the caller keeps the previous snapshot or an older one
Poll(keep) ==
  /\ key' = read_key_input(KEYINPUT)
  /\ other' = IF keep THEN other ELSE key
  /\ out' = Out("read_key_input", "", FALSE, key', KEYINPUT)
  /\ UNCHANGED <<KEYINPUT, setting, events>>

Pressed(b) ==
  /\ out' = Out("pressed", b, pressed(b, key), 0, 0)
  /\ UNCHANGED <<KEYINPUT, key, other, setting, events>>

Difference ==
  /\ out' = Out("difference", "", FALSE, difference(key, other), 0)
  /\ UNCHANGED <<KEYINPUT, key, other, setting, events>>

ColumnDirection ==
  /\ out' = Out("column_direction", "", FALSE, column_direction(key), 0)
  /\ UNCHANGED <<KEYINPUT, key, other, setting, events>>

RowDirection ==
  /\ out' = Out("row_direction", "", FALSE, row_direction(key), 0)
  /\ UNCHANGED <<KEYINPUT, key, other, setting, events>>

Default ==
  /\ setting' = KeyInterruptSetting_Default
  /\ out' = Out("default", "", FALSE, 0, 0)
  /\ UNCHANGED <<KEYINPUT, key, other, events>>

Set(f, b) ==
  /\ setting' = setting_set(f, setting, b)
  /\ out' = Out("set", f, b, 0, setting)
  /\ UNCHANGED <<KEYINPUT, key, other, events>>

\* the keypad as the hardware drives it, polled by a caller
Next ==
  \/ \E b \in Buttons : HwPress(b)
  \/ \E b \in Buttons : HwRelease(b)
  \/ \E keep \in BOOLEAN : Poll(keep)
  \/ \E b \in Buttons : Pressed(b)
  \/ Difference
  \/ ColumnDirection
  \/ RowDirection

Spec == Init /\ [][Next]_vars

\* read_key_input on every 16-bit register value
InitRead ==
  /\ KEYINPUT \in U16
  /\ key = KeyInput_Default
  /\ other = KeyInput_Default
  /\ setting = KeyInterruptSetting_Default
  /\ out = Out("default", "", FALSE, 0, 0)
  /\ events = 0

NextRead == \E keep \in BOOLEAN : Poll(keep)

SpecRead == InitRead /\ [][NextRead]_vars

\* the queries on every 16-bit KeyInput
InitQuery ==
  /\ KEYINPUT = KEY_MASK
  /\ key \in U16
  /\ other = KeyInput_Default
  /\ setting = KeyInterruptSetting_Default
  /\ out = Out("default", "", FALSE, 0, 0)
  /\ events = 0

\* each behaviour applies one query to its input
ApplyPressed(b) == out.op = "default" /\ Pressed(b)

ApplyColumnDirection == out.op = "default" /\ ColumnDirection

ApplyRowDirection == out.op = "default" /\ RowDirection

NextQuery ==
  \/ \E b \in Buttons : ApplyPressed(b)
  \/ ApplyColumnDirection
  \/ ApplyRowDirection

SpecQuery == InitQuery /\ [][NextQuery]_vars

\* difference on sampled pairs of 16-bit KeyInputs
InitDiff ==
  /\ KEYINPUT = KEY_MASK
  /\ key \in KeySamples
  /\ other \in KeySamples
  /\ setting = KeyInterruptSetting_Default
  /\ out = Out("default", "", FALSE, 0, 0)
  /\ events = 0

NextDiff == Difference

SpecDiff == InitDiff /\ [][NextDiff]_vars

\* a KeyInterruptSetting built from the default by the setters
NextIrq ==
  \/ Default
  \/ \E f \in Fields : \E b \in BOOLEAN : Set(f, b)

SpecIrq == Init /\ [][NextIrq]_vars

(***************************************************************************)
(* Properties                                                              *)
(***************************************************************************)
\* the bit position the documentation gives each button
ClaimedPosition(b) ==
  CASE b = "A" -> 0
    [] b = "B" -> 1
    [] b = "Select" -> 2
    [] b = "Start" -> 3
    [] b = "Right" -> 4
    [] b = "Left" -> 5
    [] b = "Up" -> 6
    [] b = "Down" -> 7
    [] b = "R" -> 8
    [] b = "L" -> 9
    [] b = "irq_enabled" -> 14
    [] b = "irq_logical_and" -> 15

\* v with bit j inverted
Flip(v, j) == IF BitAt(v, j) = 1 THEN v - Pow2[j] ELSE v + Pow2[j]

\* C1: for every raw 16-bit value r of the register, read_key_input returns
\* r XOR 0x03FF: bits 0..9 are inverted (1 iff the raw bit is 0), and bits
\* 10..15 are those of r.
C1_ReadKeyInputFlipsLowTen ==
  out.op = "read_key_input" =>
    /\ out.num = key
    /\ key = out.input + 1023 - 2 * (out.input % 1024)
    /\ \A i \in 0 .. 9 : (BitAt(key, i) = 1) <=> (BitAt(out.input, i) = 0)
    /\ \A i \in 10 .. 15 : BitAt(key, i) = BitAt(out.input, i)

\* a read of 0x8155 (high bit set, low bits mixed) gave 0x82AA
C1_Witness ==
  /\ out.op = "read_key_input"
  /\ out.input = 33109
  /\ key = 33450

\* C2 as stated: with the register at 0b1111111101, read_key_input yields a
\* KeyInput with a_pressed true and every other button query false.
C2_Original ==
  (out.op = "read_key_input" /\ out.input = 1021) =>
    /\ a_pressed(key)
    /\ \A b \in Buttons \ {"A"} : ~pressed(b, key)

\* C2 amended: with the register at 0b1111111101 (bit 1 low), read_key_input
\* yields a KeyInput with b_pressed true and every other button query false.
C2_RawB_ReadsAsBPressed ==
  (out.op = "read_key_input" /\ out.input = 1021) =>
    /\ b_pressed(key)
    /\ \A b \in Buttons \ {"B"} : ~pressed(b, key)

\* the register held 0b1111111101 when it was polled
C2_Witness ==
  /\ out.op = "read_key_input"
  /\ out.input = 1021
  /\ out.num = 2
  /\ ~a_pressed(key)

\* C3: <b>_pressed(k) is true iff the bit at b's documented position is set
\* in k, whatever the other fifteen bits are, and the ten positions differ.
C3_PressedReadsOwnBit ==
  out.op = "pressed" =>
    /\ out.flag <=> (BitAt(key, ClaimedPosition(out.arg)) = 1)
    /\ \A j \in (0 .. 15) \ {ClaimedPosition(out.arg)} :
         pressed(out.arg, Flip(key, j)) = out.flag
    /\ \A b \in Buttons \ {out.arg} : KeyInput_bit(b) # KeyInput_bit(out.arg)

\* left_pressed answered false on a value with every bit but Left's set
C3_Witness ==
  /\ out.op = "pressed"
  /\ out.arg = "Left"
  /\ key = 65535 - 32
  /\ out.flag = FALSE

\* C4: a button's setter makes its getter return the value set (true after
\* set true, false after a following set false) and changes no other bit of
\* the 16-bit value: the other nine buttons, irq_enabled, irq_logical_and.
C4_SetterTouchesOneBit ==
  (out.op = "set" /\ out.arg \in Buttons) =>
    /\ setting_get(out.arg, setting) = out.flag
    /\ \A g \in Fields \ {out.arg} :
         setting_get(g, setting) = setting_get(g, out.input)
    /\ \A i \in (0 .. 15) \ {ClaimedPosition(out.arg)} :
         BitAt(setting, i) = BitAt(out.input, i)

\* Start was set and is now cleared, while A, irq_enabled and
\* irq_logical_and stay set
C4_Witness ==
  /\ out.op = "set"
  /\ out.arg = "Start"
  /\ out.flag = FALSE
  /\ setting_get("Start", out.input)
  /\ ~setting_get("Start", setting)
  /\ setting_get("A", setting)
  /\ irq_enabled(setting)
  /\ irq_logical_and(setting)

C6_ColumnDirection ==
  out.op = "column_direction" =>
    /\ out.num = IF BitAt(key, 4) = 1 THEN 1
                 ELSE IF BitAt(key, 5) = 1 THEN -1 ELSE 0
    /\ \A j \in (0 .. 15) \ {4, 5} : column_direction(Flip(key, j)) = out.num

\* Right and Left both held: Plus
C6_Witness ==
  /\ out.op = "column_direction"
  /\ BitAt(key, 4) = 1
  /\ BitAt(key, 5) = 1
  /\ out.num = Plus

\* C7: row_direction is Plus when Down (bit 7) is set, Minus when Down is
\* clear and Up (bit 6) is set, Neutral otherwise, and depends on no other
\* bit.
C7_RowDirection ==
  out.op = "row_direction" =>
    /\ out.num = IF BitAt(key, 7) = 1 THEN 1
                 ELSE IF BitAt(key, 6) = 1 THEN -1 ELSE 0
    /\ \A j \in (0 .. 15) \ {6, 7} : row_direction(Flip(key, j)) = out.num

\* Down and Up both held: Plus
C7_Witness ==
  /\ out.op = "row_direction"
  /\ BitAt(key, 7) = 1
  /\ BitAt(key, 6) = 1
  /\ out.num = Plus

\* C8: the default KeyInterruptSetting is the all-zero value: irq_enabled
\* false, irq_logical_and false, no button selected.
C8_DefaultIsZero ==
  out.op = "default" =>
    /\ setting = 0
    /\ ~irq_enabled(setting)
    /\ ~irq_logical_and(setting)
    /\ \A b \in Buttons : ~setting_get(b, setting)

\* a setting was reset to the default
C8_Witness ==
  /\ out.op = "default"
  /\ setting = KeyInterruptSetting_Default
  /\ \A f \in Fields : ~setting_get(f, setting)

\* the getters that are true of a setting
Selected(s) == {f \in Fields : setting_get(f, s)}

C10_UnusedBitsStayZero ==
  /\ \A i \in 10 .. 13 : BitAt(key, i) = 0 /\ BitAt(other, i) = 0
  /\ out.op \in {"read_key_input", "difference"} =>
       \A i \in 10 .. 13 : BitAt(out.num, i) = 0

\* two polls (A held, then A and B held) and their difference, B
C10_Witness ==
  /\ out.op = "difference"
  /\ key = 3
  /\ other = 1
  /\ out.num = 2

====
